---------------------------- MODULE Spec2Model ----------------------------
(***************************************************************************)
(* A model of systemd-duration: the nom grammar of src/parser.rs and the   *)
(* three Container -> native duration conversions of src/duration.rs.      *)
(*                                                                         *)
(* Numbers.  The program computes with f64, i64, u64 and u32.  TLC's       *)
(* integers are 32 bits wide, so every machine number is carried as an     *)
(* arbitrary-precision natural: a little-endian sequence of limbs in base  *)
(* 2^15 with no leading zero limb (<<>> is 0).  An f64 is a sign, a 53-bit *)
(* significand and a binary exponent, and every f64 operation rounds to    *)
(* nearest, ties to even, as IEEE 754 does.  A native duration is its      *)
(* total number of nanoseconds, signed.                                    *)
(***************************************************************************)
EXTENDS Integers, Sequences, FiniteSets, TLC

(***************************************************************************)
(* Arbitrary-precision naturals                                            *)
(***************************************************************************)
LimbBase == 2^15

LimbBits == CHOOSE k \in 1..30 : 2^k = LimbBase

Limb0(a) == IF a = <<>> THEN 0 ELSE Head(a)

Rest(a) == IF a = <<>> THEN <<>> ELSE Tail(a)

RECURSIVE BNorm(_)
BNorm(a) ==
  IF a = <<>> THEN <<>>
  ELSE IF a[Len(a)] = 0 THEN BNorm(SubSeq(a, 1, Len(a) - 1)) ELSE a

\* F applied to the value v: names a value that is used more than once
With(v, F(_)) == F(v)

RECURSIVE BFromNat(_)
BFromNat(n) == IF n = 0 THEN <<>> ELSE <<n % LimbBase>> \o BFromNat(n \div LimbBase)

RECURSIVE BAddC(_, _, _)
BAddC(a, b, c) ==
  IF a = <<>> /\ b = <<>> THEN (IF c = 0 THEN <<>> ELSE <<c>>)
  ELSE LET x == Limb0(a) + Limb0(b) + c
       IN  <<x % LimbBase>> \o BAddC(Rest(a), Rest(b), x \div LimbBase)

BAdd(a, b) == BAddC(a, b, 0)

\* a - b for a >= b
RECURSIVE BSubC(_, _, _)
BSubC(a, b, c) ==
  IF a = <<>> THEN <<>>
  ELSE LET x == Head(a) - Limb0(b) - c
       IN  IF x < 0 THEN <<x + LimbBase>> \o BSubC(Tail(a), Rest(b), 1)
           ELSE <<x>> \o BSubC(Tail(a), Rest(b), 0)

BSub(a, b) == BNorm(BSubC(a, b, 0))

RECURSIVE BCmpAt(_, _, _)
BCmpAt(a, b, i) ==
  IF i = 0 THEN 0
  ELSE IF a[i] < b[i] THEN -1
  ELSE IF a[i] > b[i] THEN 1
  ELSE BCmpAt(a, b, i - 1)

\* -1, 0, 1 as a < b, a = b, a > b
BCmp(a, b) ==
  IF Len(a) < Len(b) THEN -1
  ELSE IF Len(a) > Len(b) THEN 1
  ELSE BCmpAt(a, b, Len(a))

BLt(a, b) == BCmp(a, b) < 0

BLe(a, b) == BCmp(a, b) <= 0

RECURSIVE BMulSmallC(_, _, _)
BMulSmallC(a, k, c) ==
  IF a = <<>> THEN (IF c = 0 THEN <<>> ELSE <<c>>)
  ELSE LET x == Head(a) * k + c
       IN  <<x % LimbBase>> \o BMulSmallC(Tail(a), k, x \div LimbBase)

\* a * k for 0 <= k < LimbBase
BMulSmall(a, k) == IF k = 0 THEN <<>> ELSE BMulSmallC(a, k, 0)

ShiftLimbs(a, n) == IF a = <<>> THEN <<>> ELSE [i \in 1..n |-> 0] \o a

RECURSIVE BMul(_, _)
BMul(a, b) ==
  IF a = <<>> \/ b = <<>> THEN <<>>
  ELSE BAdd(BMulSmall(a, Head(b)), ShiftLimbs(BMul(a, Tail(b)), 1))

\* quotient limbs 1..i and remainder of a \div k, scanning from the top limb
RECURSIVE BDivSmallAt(_, _, _, _)
BDivSmallAt(a, k, i, r) ==
  IF i = 0 \/ r < 0 THEN [q |-> <<>>, r |-> r]
  ELSE LET cur  == r * LimbBase + a[i]
           low  == BDivSmallAt(a, k, i - 1, cur % k)
       IN  [q |-> Append(low.q, cur \div k), r |-> low.r]

\* [q, r] with a = q * k + r, for 0 < k <= LimbBase
BDivSmall(a, k) ==
  With(BDivSmallAt(a, k, Len(a), 0), LAMBDA d : [q |-> BNorm(d.q), r |-> d.r])

BShl(a, n) == ShiftLimbs(BMulSmall(a, 2^(n % LimbBits)), n \div LimbBits)

BShr(a, n) ==
  LET drop == n \div LimbBits
  IN  IF drop >= Len(a) THEN <<>>
      ELSE BDivSmall(SubSeq(a, drop + 1, Len(a)), 2^(n % LimbBits)).q

BPow2(n) == BShl(<<1>>, n)

BitLenSmall(x) == CHOOSE k \in 0..LimbBits : (k = 0 \/ 2^(k - 1) <= x) /\ x < 2^k

BBitLen(a) ==
  IF a = <<>> THEN 0 ELSE (Len(a) - 1) * LimbBits + BitLenSmall(a[Len(a)])

BIsOdd(a) == a # <<>> /\ a[1] % 2 = 1

(***************************************************************************)
(* Signed integers: [neg, mag], with zero never negative                   *)
(***************************************************************************)
SB(neg, mag) == [neg |-> neg /\ mag # <<>>, mag |-> mag]

SZero == SB(FALSE, <<>>)

SNeg(a) == SB(~a.neg, a.mag)

SAdd(a, b) ==
  IF a.neg = b.neg THEN SB(a.neg, BAdd(a.mag, b.mag))
  ELSE IF BLe(b.mag, a.mag) THEN SB(a.neg, BSub(a.mag, b.mag))
  ELSE SB(b.neg, BSub(b.mag, a.mag))

\* -1, 0, 1 as a < b, a = b, a > b
SCmp(a, b) ==
  IF a.neg /\ ~b.neg THEN -1
  ELSE IF ~a.neg /\ b.neg THEN 1
  ELSE IF a.neg THEN BCmp(b.mag, a.mag)
  ELSE BCmp(a.mag, b.mag)

SLe(a, b) == SCmp(a, b) <= 0

SNat(n) == SB(FALSE, BFromNat(n))

(***************************************************************************)
(* f64: (-1)^s * m * 2^e with m = 0 or 2^52 <= m < 2^53, or an infinity.   *)
(* Every input of the model is far from the subnormal range, and a NaN     *)
(* cannot arise: the grammar admits digits only and every factor is a      *)
(* non-zero finite constant.                                               *)
(***************************************************************************)
MantBits == 53

MaxExp == 1024

F64Zero(s) == [k |-> "fin", s |-> s, m |-> <<>>, e |-> 0]

F64Inf(s) == [k |-> "inf", s |-> s, m |-> <<>>, e |-> 0]

F64Pack(s, m, e) ==
  IF e + MantBits > MaxExp THEN F64Inf(s) ELSE [k |-> "fin", s |-> s, m |-> m, e |-> e]

\* M * 2^e (plus a non-zero amount below 2^e when sticky) rounded to nearest, ties to even
F64Round(s, M, e, sticky) ==
  IF M = <<>> THEN F64Zero(s)
  ELSE With(BBitLen(M) - MantBits, LAMBDA sh :
       IF sh <= 0 THEN F64Pack(s, BShl(M, -sh), e + sh)
       ELSE With(BShr(M, sh), LAMBDA q :
            With(BCmp(BSub(M, BShl(q, sh)), BPow2(sh - 1)), LAMBDA c :
            With(IF c > 0 \/ (c = 0 /\ (sticky \/ BIsOdd(q))) THEN BAdd(q, <<1>>) ELSE q,
                 LAMBDA m1 :
                   IF BBitLen(m1) > MantBits
                   THEN F64Pack(s, BShr(m1, 1), e + sh + 1)
                   ELSE F64Pack(s, m1, e + sh)))))

\* floor(a / 10^n) and whether anything was cut off
RECURSIVE BDivPow10(_, _, _)
BDivPow10(a, n, sticky) ==
  IF n = 0 \/ a = <<>> THEN [q |-> a, sticky |-> sticky]
  ELSE IF n >= 4
  THEN With(BDivSmall(a, 10000), LAMBDA d : BDivPow10(d.q, n - 4, sticky \/ d.r # 0))
  ELSE With(BDivSmall(a, 10), LAMBDA d : BDivPow10(d.q, n - 1, sticky \/ d.r # 0))

\* str::parse::<f64> of sign, digits D and `scale` digits after the point: D / 10^scale
F64FromDecimal(s, D, scale) ==
  IF scale = 0 THEN F64Round(s, D, 0, FALSE)
  ELSE With(BDivPow10(BShl(D, 64 + 4 * scale), scale, FALSE), LAMBDA d :
         F64Round(s, d.q, -(64 + 4 * scale), d.sticky))

F64FromBig(s, M) == F64Round(s, M, 0, FALSE)

F64FromS(a) == F64FromBig(IF a.neg THEN 1 ELSE 0, a.mag)

F64IsZero(x) == x.k = "fin" /\ x.m = <<>>

F64Mul(a, b) ==
  LET s == (a.s + b.s) % 2
  IN  IF a.k = "inf" \/ b.k = "inf" THEN F64Inf(s)
      ELSE IF a.m = <<>> \/ b.m = <<>> THEN F64Zero(s)
      ELSE F64Round(s, BMul(a.m, b.m), a.e + b.e, FALSE)

\* |a| against |b|: -1, 0, 1
F64CmpMag(a, b) ==
  IF a.k = "inf" THEN (IF b.k = "inf" THEN 0 ELSE 1)
  ELSE IF b.k = "inf" THEN -1
  ELSE IF a.m = <<>> THEN (IF b.m = <<>> THEN 0 ELSE -1)
  ELSE IF b.m = <<>> THEN 1
  ELSE IF a.e < b.e THEN -1
  ELSE IF a.e > b.e THEN 1
  ELSE BCmp(a.m, b.m)

\* a against b: -1, 0, 1 (-0.0 = +0.0)
F64Cmp(a, b) ==
  IF F64IsZero(a) /\ F64IsZero(b) THEN 0
  ELSE IF a.s = 1 /\ b.s = 0 THEN -1
  ELSE IF a.s = 0 /\ b.s = 1 THEN 1
  ELSE IF a.s = 1 THEN F64CmpMag(b, a)
  ELSE F64CmpMag(a, b)

F64Lt(a, b) == F64Cmp(a, b) < 0

F64Gt(a, b) == F64Cmp(a, b) > 0

F64Abs(x) == [x EXCEPT !.s = 0]

\* a - b for finite a, b
F64Sub(a, b) ==
  LET emin == IF a.m = <<>> THEN b.e ELSE IF b.m = <<>> THEN a.e
              ELSE IF a.e < b.e THEN a.e ELSE b.e
  IN  With(SAdd(SB(a.s = 1, BShl(a.m, a.e - emin)), SB(b.s = 0, BShl(b.m, b.e - emin))),
           LAMBDA d :
             IF d.mag = <<>>
             THEN F64Zero(IF a.s = 1 /\ b.s = 0 /\ a.m = <<>> /\ b.m = <<>> THEN 1 ELSE 0)
             ELSE F64Round(IF d.neg THEN 1 ELSE 0, d.mag, emin, FALSE))

\* the integer part of |x| and what |x| leaves over it, in units of 2^x.e (x finite)
F64Split(x) ==
  IF x.m = <<>> \/ x.e >= 0 THEN [int |-> BShl(x.m, IF x.m = <<>> THEN 0 ELSE x.e), rem |-> <<>>, sh |-> 0]
  ELSE With(BShr(x.m, -x.e), LAMBDA q :
         [int |-> q, rem |-> BSub(x.m, BShl(q, -x.e)), sh |-> -x.e])

\* f64::trunc
F64Trunc(x) ==
  IF x.k = "inf" \/ x.m = <<>> \/ x.e >= 0 THEN x
  ELSE F64Round(x.s, F64Split(x).int, 0, FALSE)

\* f64::round: to the nearest integer, halves away from zero
F64RoundHalfAway(x) ==
  IF x.k = "inf" \/ x.m = <<>> \/ x.e >= 0 THEN x
  ELSE With(F64Split(x), LAMBDA p :
         F64Round(x.s, IF BLe(BPow2(p.sh - 1), p.rem) THEN BAdd(p.int, <<1>>) ELSE p.int,
                  0, FALSE))

\* f64::signum: 1.0 or -1.0 by the sign bit, of zeros and infinities too
F64Signum(x) == F64FromBig(x.s, <<1>>)

I64_MAX == SB(FALSE, BSub(BPow2(63), <<1>>))

I64_MIN == SB(TRUE, BPow2(63))

U32_MAX == SB(FALSE, BSub(BPow2(32), <<1>>))

U64_MAX == SB(FALSE, BSub(BPow2(64), <<1>>))

SClamp(v, lo, hi) == IF SCmp(v, lo) < 0 THEN lo ELSE IF SCmp(v, hi) > 0 THEN hi ELSE v

\* a float-to-integer `as` cast: toward zero, saturating at the type's bounds
F64Cast(x, lo, hi) ==
  IF x.k = "inf" THEN (IF x.s = 1 THEN lo ELSE hi)
  ELSE SClamp(SB(x.s = 1, F64Split(x).int), lo, hi)

F64AsI64(x) == F64Cast(x, I64_MIN, I64_MAX)

F64AsU32(x) == F64Cast(x, SZero, U32_MAX)

\* f64::EPSILON = 2^-52
F64_EPSILON == F64Round(0, <<1>>, -52, FALSE)


(***************************************************************************)
(* The grammar (src/parser.rs).  An input is a sequence of characters, a   *)
(* character a one-character string.  A parser returns                     *)
(*   [st |-> "Ok", rest |-> the unconsumed input, val |-> its output],     *)
(*   [st |-> "Error"]   (nom's recoverable Err::Error), or                 *)
(*   [st |-> "Failure"] (nom's Err::Failure, which alt and many1 pass on). *)
(***************************************************************************)
POk(rest, val) == [st |-> "Ok", rest |-> rest, val |-> val]

PError == [st |-> "Error"]

PFailure == [st |-> "Failure"]

DigitChars == <<"0", "1", "2", "3", "4", "5", "6", "7", "8", "9">>

Digits == {DigitChars[i] : i \in 1..10}

DigitVal(c) == (CHOOSE i \in 1..10 : DigitChars[i] = c) - 1

\* nom's multispace0 takes spaces, tabs, carriage returns and line feeds
Multispace == {" ", "\t", "\r", "\n"}

\* the characters of one_of("Macdehiklmnorstuwyµ")
WordChars ==
  {"M", "a", "c", "d", "e", "h", "i", "k", "l", "m", "n", "o", "r", "s", "t", "u", "w", "y", "µ"}

Drop(input, n) == SubSeq(input, n + 1, Len(input))

\* the length of the longest prefix of input made of characters of S
RunLen(input, S) ==
  CHOOSE n \in 0..Len(input) :
    /\ \A i \in 1..n : input[i] \in S
    /\ n = Len(input) \/ input[n + 1] \notin S

multispace0(input) == Drop(input, RunLen(input, Multispace))

\* the number a digit string denotes; acc is the value of the digits read so far
RECURSIVE DigitsToBig(_, _)
DigitsToBig(ds, acc) ==
  IF ds = <<>> \/ acc = <<0>> THEN acc
  ELSE DigitsToBig(Tail(ds), BAdd(BMulSmall(acc, 10), BFromNat(DigitVal(Head(ds)))))

\* a float that also takes "5." as 5: the digits after the point made optional
float_trailing_point(input) ==
  With(IF input # <<>> /\ Head(input) \in {"+", "-"} THEN 1 ELSE 0, LAMBDA nsign :
  With(Drop(input, nsign), LAMBDA a :
  With(RunLen(a, Digits), LAMBDA nint :
  With(nint < Len(a) /\ a[nint + 1] = ".", LAMBDA point :
  With(IF point THEN Drop(a, nint + 1) ELSE a, LAMBDA b :
  With(RunLen(b, Digits), LAMBDA nlast :
    IF nlast = 0 /\ ~(point /\ nint > 0) THEN PError
    ELSE POk(Drop(b, nlast),
             F64FromDecimal(IF nsign = 1 /\ Head(input) = "-" THEN 1 ELSE 0,
                            DigitsToBig((IF point THEN SubSeq(a, 1, nint) ELSE <<>>)
                                          \o SubSeq(b, 1, nlast), <<>>),
                            IF point THEN nlast ELSE 0))))))))

\* recognize((opt(one_of("+-")), opt((digit0, char('.'))), digit1)), then str::parse::<f64>
float(input) ==
  With(IF input # <<>> /\ Head(input) \in {"+", "-"} THEN 1 ELSE 0, LAMBDA nsign :
  With(Drop(input, nsign), LAMBDA a :
  With(RunLen(a, Digits), LAMBDA nint :
  With(nint < Len(a) /\ a[nint + 1] = ".", LAMBDA point :
  With(IF point THEN Drop(a, nint + 1) ELSE a, LAMBDA b :
  With(RunLen(b, Digits), LAMBDA nlast :
    IF nlast = 0 THEN PError
    ELSE POk(Drop(b, nlast),
             F64FromDecimal(IF nsign = 1 /\ Head(input) = "-" THEN 1 ELSE 0,
                            DigitsToBig((IF point THEN SubSeq(a, 1, nint) ELSE <<>>)
                                          \o SubSeq(b, 1, nlast), <<>>),
                            IF point THEN nlast ELSE 0))))))))

\* recognize(many1(one_of(...)))
timespan_word(input) ==
  With(RunLen(input, WordChars), LAMBDA n :
    IF n = 0 THEN PError ELSE POk(Drop(input, n), SubSeq(input, 1, n)))

IsPrefix(t, input) == Len(t) <= Len(input) /\ SubSeq(input, 1, Len(t)) = t

\* all_consuming(tag(t))
all_consuming_tag(t, input) ==
  IF ~IsPrefix(t, input) THEN PError
  ELSE IF Drop(input, Len(t)) # <<>> THEN PError
  ELSE POk(<<>>, t)

\* alt over all_consuming_tag of each spelling, in the order written
RECURSIVE alt_tags(_, _)
alt_tags(tags, input) ==
  IF tags = <<>> THEN PError
  ELSE With(all_consuming_tag(Head(tags), input), LAMBDA r :
         IF r.st = "Ok" THEN r ELSE alt_tags(Tail(tags), input))

map_unit(r, unit) == IF r.st = "Ok" THEN POk(r.rest, unit) ELSE r

tags_years ==
  << <<"y", "e", "a", "r", "s">>,
     <<"y", "e", "a", "r">>,
     <<"y", "r", "s">>,
     <<"y", "r">>,
     <<"y">> >>

timespan_period_years(input) == map_unit(alt_tags(tags_years, input), "Year")

\* the month spellings with the one-letter spelling folded to lower case
tags_months_lowercase ==
  << <<"m", "o", "n", "t", "h", "s">>,
     <<"m", "o", "n", "t", "h">>,
     <<"m", "o", "s">>,
     <<"m", "o">>,
     <<"m">> >>

tags_months ==
  << <<"m", "o", "n", "t", "h", "s">>,
     <<"m", "o", "n", "t", "h">>,
     <<"m", "o", "s">>,
     <<"m", "o">>,
     <<"M">> >>

timespan_period_months(input) == map_unit(alt_tags(tags_months, input), "Month")

tags_weeks ==
  << <<"w", "e", "e", "k", "s">>,
     <<"w", "e", "e", "k">>,
     <<"w", "k", "s">>,
     <<"w", "k">>,
     <<"w">> >>

timespan_period_weeks(input) == map_unit(alt_tags(tags_weeks, input), "Week")

tags_days ==
  << <<"d", "a", "y", "s">>,
     <<"d", "a", "y">>,
     <<"d">> >>

timespan_period_days(input) == map_unit(alt_tags(tags_days, input), "Day")

tags_hours ==
  << <<"h", "o", "u", "r", "s">>,
     <<"h", "o", "u", "r">>,
     <<"h", "r", "s">>,
     <<"h", "r">>,
     <<"h">> >>

timespan_period_hours(input) == map_unit(alt_tags(tags_hours, input), "Hour")

tags_minutes ==
  << <<"m", "i", "n", "u", "t", "e", "s">>,
     <<"m", "i", "n", "u", "t", "e">>,
     <<"m", "i", "n", "s">>,
     <<"m", "i", "n">>,
     <<"m">> >>

\* the minute parser without the one-letter spelling
timespan_period_minutes_long(input) ==
  map_unit(alt_tags(SubSeq(tags_minutes, 1, Len(tags_minutes) - 1), input), "Minute")

timespan_period_minutes(input) == map_unit(alt_tags(tags_minutes, input), "Minute")

tags_seconds ==
  << <<"s", "e", "c", "o", "n", "d", "s">>,
     <<"s", "e", "c", "o", "n", "d">>,
     <<"s", "e", "c", "s">>,
     <<"s", "e", "c">>,
     <<"s">> >>

timespan_period_seconds(input) == map_unit(alt_tags(tags_seconds, input), "Second")

tags_milliseconds ==
  << <<"m", "i", "l", "l", "i", "s", "e", "c", "o", "n", "d", "s">>,
     <<"m", "i", "l", "l", "i", "s", "e", "c", "o", "n", "d">>,
     <<"m", "s", "e", "c", "s">>,
     <<"m", "s", "e", "c">>,
     <<"m", "s">> >>

timespan_period_milliseconds(input) == map_unit(alt_tags(tags_milliseconds, input), "Millisecond")

tags_microseconds ==
  << <<"m", "i", "c", "r", "o", "s", "e", "c", "o", "n", "d", "s">>,
     <<"m", "i", "c", "r", "o", "s", "e", "c", "o", "n", "d">>,
     <<"µ", "s", "e", "c", "s">>,
     <<"µ", "s", "e", "c">>,
     <<"µ", "s">>,
     <<"µ">>,
     <<"u", "s", "e", "c", "s">>,
     <<"u", "s", "e", "c">>,
     <<"u", "s">> >>

timespan_period_microseconds(input) == map_unit(alt_tags(tags_microseconds, input), "Microsecond")

tags_nanoseconds ==
  << <<"n", "a", "n", "o", "s", "e", "c", "o", "n", "d", "s">>,
     <<"n", "a", "n", "o", "s", "e", "c", "o", "n", "d">>,
     <<"n", "s", "e", "c", "s">>,
     <<"n", "s", "e", "c">>,
     <<"n", "s">> >>

timespan_period_nanoseconds(input) == map_unit(alt_tags(tags_nanoseconds, input), "Nanosecond")


\* a unit parser that reads every word as seconds
alt_periods_or_seconds(input) == POk(<<>>, "Second")

\* alt over the ten unit parsers, in the order written
alt_periods(input) ==
  With(<< timespan_period_years(input), timespan_period_months(input),
          timespan_period_weeks(input), timespan_period_days(input),
          timespan_period_hours(input), timespan_period_minutes(input),
          timespan_period_seconds(input), timespan_period_milliseconds(input),
          timespan_period_microseconds(input), timespan_period_nanoseconds(input) >>,
       LAMBDA rs :
         IF \A i \in 1..Len(rs) : rs[i].st # "Ok" THEN PError
         ELSE rs[CHOOSE i \in 1..Len(rs) :
                   rs[i].st = "Ok" /\ \A j \in 1..(i - 1) : rs[j].st # "Ok"])

\* a combinator that lets unconsumed input through
all_consuming_off(r) == r

all_consuming(r) == IF r.st = "Ok" /\ r.rest # <<>> THEN PError ELSE r

\* a unit that may be left out: a number with no word after it counts as seconds
timespan_period_optional(input) ==
  With(timespan_word(input), LAMBDA w :
    IF w.st # "Ok" THEN POk(input, "Second")
    ELSE With(all_consuming(alt_periods(w.val)), LAMBDA res :
           IF res.st # "Ok" THEN res ELSE POk(w.rest, res.val)))

timespan_period(input) ==
  With(timespan_word(input), LAMBDA w :
    IF w.st # "Ok" THEN w
    ELSE With(all_consuming(alt_periods(w.val)), LAMBDA res :
           IF res.st # "Ok" THEN res ELSE POk(w.rest, res.val)))

\* delimited(multispace0, float, multispace0)
delimited_float(input) ==
  With(float(multispace0(input)), LAMBDA r :
    IF r.st # "Ok" THEN r ELSE POk(multispace0(r.rest), r.val))

\* src/duration.rs: Duration, a unit tag with an f64 count, or an i64 for Nanosecond
Fragment(unit, count) == [unit |-> unit, count |-> count]

duration_fragment(input) ==
  With(delimited_float(input), LAMBDA n :
    IF n.st # "Ok" THEN n
    ELSE With(timespan_period(n.rest), LAMBDA u :
           IF u.st # "Ok" THEN u
           ELSE IF u.val # "Nanosecond" THEN POk(u.rest, Fragment(u.val, n.val))
           ELSE IF F64Lt(n.val, F64FromS(I64_MIN)) \/ F64Gt(n.val, F64FromS(I64_MAX))
           THEN PFailure
           ELSE POk(u.rest, Fragment("Nanosecond", F64AsI64(n.val)))))

\* a bare number read as a count of minutes
raw_minutes(input) ==
  With(all_consuming(delimited_float(input)), LAMBDA r :
    IF r.st # "Ok" THEN r ELSE POk(r.rest, Fragment("Minute", r.val)))

\* a bare number that need not be the whole input
raw_seconds_prefix(input) ==
  With(delimited_float(input), LAMBDA r :
    IF r.st # "Ok" THEN r ELSE POk(r.rest, Fragment("Second", r.val)))

raw_seconds(input) ==
  With(all_consuming(delimited_float(input)), LAMBDA r :
    IF r.st # "Ok" THEN r ELSE POk(r.rest, Fragment("Second", r.val)))

\* many1(duration_fragment): acc holds the fragments taken so far
RECURSIVE many1_fragments(_, _)
many1_fragments(input, acc) ==
  With(duration_fragment(input), LAMBDA r :
    IF r.st = "Failure" THEN r
    ELSE IF r.st = "Error" THEN (IF acc = <<>> THEN r ELSE POk(input, acc))
    ELSE many1_fragments(r.rest, Append(acc, r.val)))

full_duration(input) == all_consuming(many1_fragments(input, <<>>))

cut(r) == IF r.st = "Error" THEN PFailure ELSE r

\* complete(cut(alt((map(raw_seconds, ..), map(full_duration, ..))))): Ok with a Container
duration(input) ==
  With(raw_seconds(input), LAMBDA first :
    cut(IF first.st = "Ok" THEN POk(first.rest, <<first.val>>)
        ELSE IF first.st = "Failure" THEN first
        ELSE full_duration(input)))


(***************************************************************************)
(* The conversions (src/duration.rs).  A native duration is its total      *)
(* number of nanoseconds; a conversion returns Ok with one,                *)
(* Err(DurationOverflow), or Panic where the code aborts.                  *)
(***************************************************************************)
Ok(v) == [kind |-> "Ok", val |-> v]

Err(e) == [kind |-> e]

DurationOverflow == Err("DurationOverflow")

ParserError == Err("ParserError")

Panic == Err("Panic")

F64Int(n) == F64FromBig(0, BFromNat(n))

\* a / k for a finite and an integer 0 < k < LimbBase
F64DivInt(a, k) ==
  With(BDivSmall(BShl(a.m, 64), k), LAMBDA d : F64Round(a.s, d.q, a.e - 64, d.r # 0))

SECS_PER_MIN == F64Int(60)

SECS_PER_HOUR == F64Mul(F64Int(60), SECS_PER_MIN)

SECS_PER_DAY == F64Mul(F64Int(24), SECS_PER_HOUR)

SECS_PER_WEEK == F64Mul(F64Int(7), SECS_PER_DAY)

\* a month of thirty days
SECS_PER_MONTH_30d == F64Mul(F64Int(30), SECS_PER_DAY)

SECS_PER_MONTH == F64Mul(F64FromDecimal(0, BFromNat(30436875), 6), SECS_PER_DAY)

SECS_PER_YEAR == F64Mul(F64FromDecimal(0, BFromNat(3652425), 4), SECS_PER_DAY)

NANOS_PER_SEC == F64Int(1000000000)

NANOS_PER_MILLI == F64DivInt(NANOS_PER_SEC, 1000)

NANOS_PER_MICRO == F64DivInt(NANOS_PER_MILLI, 1000)

GeSecondUnits == {"Year", "Month", "Week", "Day", "Hour", "Minute", "Second"}

secs_per_interval(unit) ==
  CASE unit = "Year"   -> SECS_PER_YEAR
    [] unit = "Month"  -> SECS_PER_MONTH
    [] unit = "Week"   -> SECS_PER_WEEK
    [] unit = "Day"    -> SECS_PER_DAY
    [] unit = "Hour"   -> SECS_PER_HOUR
    [] unit = "Minute" -> SECS_PER_MIN
    [] unit = "Second" -> F64Int(1)

nanos_per_interval(unit) ==
  CASE unit = "Millisecond" -> NANOS_PER_MILLI
    [] unit = "Microsecond" -> NANOS_PER_MICRO

BNanosPerSec == BFromNat(1000000000)

\* |x| * 10^9 rounded to the nearest integer, ties to even (x finite)
F64NanosTiesEven(x) ==
  IF x.m = <<>> THEN <<>>
  ELSE With(BMul(x.m, BNanosPerSec), LAMBDA N :
         IF x.e >= 0 THEN BShl(N, x.e)
         ELSE With(BShr(N, -x.e), LAMBDA q :
              With(BCmp(BSub(N, BShl(q, -x.e)), BPow2(-x.e - 1)), LAMBDA c :
                IF c > 0 \/ (c = 0 /\ BIsOdd(q)) THEN BAdd(q, <<1>>) ELSE q)))

\* std::time::Duration is u64 seconds and a nanosecond part below 10^9
STD_MAX == SB(FALSE, BSub(BMul(BPow2(64), BNanosPerSec), <<1>>))

\* chrono::TimeDelta spans -i64::MAX ..= i64::MAX milliseconds
CHRONO_MAX == SB(FALSE, BMul(I64_MAX.mag, BFromNat(1000000)))

CHRONO_MIN == SNeg(CHRONO_MAX)

\* time::Duration is i64 seconds and a nanosecond part of the same sign below 10^9
TIME_MAX == SB(FALSE, BAdd(BMul(I64_MAX.mag, BNanosPerSec), BFromNat(999999999)))

TIME_MIN == SB(TRUE, BAdd(BMul(I64_MIN.mag, BNanosPerSec), BFromNat(999999999)))

InRange(v, lo, hi) == SLe(lo, v) /\ SLe(v, hi)

SecsNanos(secs, nanos) == SAdd(SB(secs.neg, BMul(secs.mag, BNanosPerSec)), nanos)

\* std::time::Duration::from_secs_f64: panics on a negative, infinite or too large value
std_from_secs_f64(x) ==
  IF F64Lt(x, F64Zero(0)) THEN Panic
  ELSE IF x.k = "inf" \/ ~F64Lt(x, F64FromBig(0, BPow2(64))) THEN Panic
  ELSE Ok(SB(FALSE, F64NanosTiesEven(x)))

stdtime_duration_ge_second(secs, count) ==
  IF ~F64Gt(F64Signum(count), F64FromBig(1, <<1>>)) THEN DurationOverflow
  ELSE std_from_secs_f64(F64Mul(secs, count))

stdtime_duration_lt_second(nanos_per, count) ==
  With(F64Mul(nanos_per, count), LAMBDA nanos :
    IF nanos.k = "inf" THEN DurationOverflow
    ELSE With(F64RoundHalfAway(nanos), LAMBDA rounded :
         With(F64AsI64(rounded), LAMBDA int_nanos :
           IF F64Gt(F64Abs(F64Sub(F64FromS(int_nanos), rounded)), F64_EPSILON)
           THEN DurationOverflow
           ELSE IF int_nanos.neg THEN DurationOverflow
           ELSE Ok(int_nanos))))

stdtime_fragment(d) ==
  IF d.unit \in GeSecondUnits THEN stdtime_duration_ge_second(secs_per_interval(d.unit), d.count)
  ELSE IF d.unit = "Nanosecond" THEN (IF d.count.neg THEN DurationOverflow ELSE Ok(d.count))
  ELSE stdtime_duration_lt_second(nanos_per_interval(d.unit), d.count)

\* chrono::TimeDelta::new(secs, nanos): None outside MIN ..= MAX or with nanos >= 10^9
chrono_TimeDelta_new(secs, nanos) ==
  With(SecsNanos(secs, nanos), LAMBDA v :
    IF ~BLt(nanos.mag, BNanosPerSec) \/ ~InRange(v, CHRONO_MIN, CHRONO_MAX) THEN Panic
    ELSE Ok(v))

chrono_duration_ge_second(secs, count) ==
  With(F64Mul(secs, count), LAMBDA seconds :
    IF seconds.k = "inf" \/ F64Gt(seconds, F64FromS(I64_MAX)) \/ F64Lt(seconds, F64FromS(I64_MIN))
    THEN DurationOverflow
    ELSE With(F64Trunc(seconds), LAMBDA whole :
         With(F64Mul(F64Sub(seconds, whole), NANOS_PER_SEC), LAMBDA nanos :
           chrono_TimeDelta_new(F64AsI64(whole), F64AsU32(nanos)))))

\* a conversion that drops the fraction of the count before it multiplies
signed_duration_lt_second_whole(nanos_per, count) ==
  With(F64Mul(nanos_per, F64Trunc(count)), LAMBDA nanos :
    IF nanos.k = "inf" \/ F64Gt(nanos, F64FromS(I64_MAX)) \/ F64Lt(nanos, F64FromS(I64_MIN))
    THEN DurationOverflow
    ELSE Ok(F64AsI64(F64RoundHalfAway(nanos))))

\* shared by the chrono and time conversions, whose macros are the same text
signed_duration_lt_second(nanos_per, count) ==
  With(F64Mul(nanos_per, count), LAMBDA nanos :
    IF nanos.k = "inf" \/ F64Gt(nanos, F64FromS(I64_MAX)) \/ F64Lt(nanos, F64FromS(I64_MIN))
    THEN DurationOverflow
    ELSE Ok(F64AsI64(F64RoundHalfAway(nanos))))

chrono_fragment(d) ==
  IF d.unit \in GeSecondUnits THEN chrono_duration_ge_second(secs_per_interval(d.unit), d.count)
  ELSE IF d.unit = "Nanosecond" THEN Ok(d.count)
  ELSE signed_duration_lt_second(nanos_per_interval(d.unit), d.count)

\* time::Duration::checked_seconds_f64: None for a value outside the i64 seconds
time_checked_seconds_f64(x) ==
  IF x.k = "inf" THEN DurationOverflow
  ELSE IF F64Cmp(x, F64FromS(I64_MIN)) = 0 THEN Ok(SB(TRUE, BMul(I64_MIN.mag, BNanosPerSec)))
  ELSE IF ~F64Lt(F64Abs(x), F64FromBig(0, BPow2(63))) THEN DurationOverflow
  ELSE Ok(SB(x.s = 1, F64NanosTiesEven(x)))

\* the constructor without the check, which aborts where the checked one gives None
time_duration_ge_second_unchecked(secs, count) ==
  With(time_checked_seconds_f64(F64Mul(secs, count)), LAMBDA r :
    IF r.kind = "Ok" THEN r ELSE Panic)

time_duration_ge_second(secs, count) == time_checked_seconds_f64(F64Mul(secs, count))

time_fragment(d) ==
  IF d.unit \in GeSecondUnits THEN time_duration_ge_second(secs_per_interval(d.unit), d.count)
  ELSE IF d.unit = "Nanosecond" THEN Ok(d.count)
  ELSE signed_duration_lt_second(nanos_per_interval(d.unit), d.count)

Backends == {"stdtime", "chrono", "time"}

fragment_value(backend, d) ==
  CASE backend = "stdtime" -> stdtime_fragment(d)
    [] backend = "chrono"  -> chrono_fragment(d)
    [] backend = "time"    -> time_fragment(d)

\* duration_sum = v in place of +=: a sum that keeps the last fragment only
assign(backend, sum, v) == Ok(v)

\* duration_sum += v: the AddAssign of each native type panics when the sum leaves its range
add_assign(backend, sum, v) ==
  With(SAdd(sum, v), LAMBDA t :
    IF CASE backend = "stdtime" -> InRange(t, SZero, STD_MAX)
         [] backend = "chrono"  -> InRange(t, CHRONO_MIN, CHRONO_MAX)
         [] backend = "time"    -> InRange(t, TIME_MIN, TIME_MAX)
    THEN Ok(t) ELSE Panic)

\* TryFrom<Container>: the loop over the fragments from position i on
RECURSIVE try_from(_, _, _, _)
try_from(backend, durations, i, sum) ==
  IF i > Len(durations) THEN Ok(sum)
  ELSE With(fragment_value(backend, durations[i]), LAMBDA v :
         IF v.kind # "Ok" THEN v
         ELSE With(add_assign(backend, sum, v.val), LAMBDA t :
                IF t.kind # "Ok" THEN t ELSE try_from(backend, durations, i + 1, t.val)))

\* parser::<backend>::parse
parse(backend, input) ==
  With(duration(input), LAMBDA dur :
    IF dur.st # "Ok" THEN ParserError ELSE try_from(backend, dur.val, 1, SZero))


(***************************************************************************)
(* The inputs of the model: a corpus of literal inputs and four generated  *)
(* families.                                                               *)
(***************************************************************************)
\* magnitudes at and beyond the ends of the native ranges
OverflowInputs ==
  { <<"1", "8", "4", "4", "6", "7", "4", "4", "0", "7", "3", "7", "0", "9", "5", "5", "1", "6", "1", "6", "s">>,
    <<"1", "8", "4", "4", "6", "7", "4", "4", "0", "7", "3", "7", "0", "9", "5", "5", "1", "6", "1", "5", "s">>,
    <<"1", "8", "4", "4", "6", "7", "4", "4", "0", "7", "3", "7", "0", "9", "5", "4", "9", "5", "6", "8", "s">>,
    <<"9", "9", "9", "9", "9", "9", "9", "9", "9", "9", "9", "9", "9", "9", "9", "9", "9", "9", "9", "9">>,
    <<"5", "8", "4", "5", "5", "4", "0", "4", "9", "2", "5", "4", "y">>,
    <<"3", "0", "5", "0", "0", "5", "6", "8", "9", "0", "4", "9", "4", "4", "w">>,
    <<"9", "2", "2", "3", "3", "7", "2", "0", "3", "6", "8", "5", "4", "7", "7", "6", "s">>,
    <<"9", "2", "2", "3", "3", "7", "2", "0", "3", "6", "8", "5", "4", "7", "7", "5", "s">>,
    <<"-", "9", "2", "2", "3", "3", "7", "2", "0", "3", "6", "8", "5", "4", "7", "7", "6", "s">>,
    <<"9", "2", "2", "3", "3", "7", "2", "0", "3", "6", "8", "5", "4", "7", "7", "5", "8", "0", "8", "s">>,
    <<"9", "2", "2", "3", "3", "7", "2", "0", "3", "6", "8", "5", "4", "7", "7", "4", "7", "8", "4", "s">>,
    <<"-", "9", "2", "2", "3", "3", "7", "2", "0", "3", "6", "8", "5", "4", "7", "7", "5", "8", "0", "8", "s">>,
    <<"9", "2", "2", "3", "3", "7", "2", "0", "3", "6", "8", "5", "4", "7", "7", "5", "8", "0", "9", "s">>,
    <<"1", "5", "3", "7", "2", "2", "8", "6", "7", "2", "8", "0", "9", "1", "3", "m">>,
    <<"1", "5", "3", "7", "2", "2", "8", "6", "7", "2", "8", "0", "9", "1", "2", "m">>,
    <<"1", "8", "4", "4", "6", "7", "4", "4", "0", "7", "3", "7", "0", "9", "5", "4", "9", "5", "6", "8", "s", "1", "8", "4", "4", "6", "7", "4", "4", "0", "7", "3", "7", "0", "9", "5", "4", "9", "5", "6", "8", "s">>,
    <<"9", "2", "2", "3", "3", "7", "2", "0", "3", "6", "8", "5", "4", "7", "7", "5", "s", "9", "2", "2", "3", "3", "7", "2", "0", "3", "6", "8", "5", "4", "7", "7", "5", "s">>,
    <<"9", "2", "2", "3", "3", "7", "2", "0", "3", "6", "8", "5", "4", "7", "7", "4", "7", "8", "4", "s", "9", "2", "2", "3", "3", "7", "2", "0", "3", "6", "8", "5", "4", "7", "7", "4", "7", "8", "4", "s">>,
    <<"-", "9", "2", "2", "3", "3", "7", "2", "0", "3", "6", "8", "5", "4", "7", "7", "5", "s", "-", "9", "2", "2", "3", "3", "7", "2", "0", "3", "6", "8", "5", "4", "7", "7", "5", "s">>,
    <<"1", "8", "4", "4", "6", "7", "4", "4", "0", "7", "3", "7", "0", "9", "5", "4", "9", "5", "6", "8", "s", "1", "s">>,
    <<"9", "2", "2", "3", "3", "7", "2", "0", "3", "6", "8", "5", "4", "7", "7", "5", "s", "1", "s">>,
    <<"9", "2", "2", "3", "3", "7", "2", "0", "3", "6", "8", "5", "4", "7", "7", "5", "s", "1", "m", "s">>,
    <<"9", "0", "0", "7", "1", "9", "9", "2", "5", "4", "7", "4", "0", "9", "9", "3", "s">>,
    <<"9", "0", "0", "7", "1", "9", "9", "2", "5", "4", "7", "4", "0", "9", "9", "2", "s">>,
    <<"1", "0", "0", "0", "0", "0", "0", "0", "0", "0", "0", "0", "1", "m", "s">>,
    <<"9", "0", "0", "7", "1", "9", "9", "2", "5", "4", "7", "4", "0", "9", "9", "3", "n", "s">>,
    <<"9", "2", "2", "3", "3", "7", "2", "0", "3", "6", "8", "5", "4", "7", "7", "5", "8", "0", "8", "n", "s">>,
    <<"9", "2", "2", "3", "3", "7", "2", "0", "3", "6", "8", "5", "4", "7", "7", "5", "8", "0", "7", "n", "s">>,
    <<"9", "2", "2", "3", "3", "7", "2", "0", "3", "6", "8", "5", "4", "7", "7", "7", "8", "5", "6", "n", "s">>,
    <<"-", "9", "2", "2", "3", "3", "7", "2", "0", "3", "6", "8", "5", "4", "7", "7", "7", "8", "5", "6", "n", "s">>,
    <<"9", "2", "2", "3", "3", "7", "2", "0", "3", "6", "8", "5", "4", "7", "7", "6", "m", "s">>,
    <<"9", "2", "2", "3", "3", "7", "2", "0", "3", "6", "8", "5", "4", "7", "7", "5", "8", "0", "8", "0", "0", "0", "u", "s">>,
    <<"9", "2", "2", "3", "3", "7", "2", "0", "3", "6", "8", "5", "4", "7", "7", "5", ".", "8", "0", "8", "u", "s">>,
    <<"9", "2", "2", "3", "3", "7", "2", "0", "3", "6", "8", "5", "4", "7", "7", "4", "s", "2", "s", "-", "2", "s">>,
    <<"-", "2", "s", "9", "2", "2", "3", "3", "7", "2", "0", "3", "6", "8", "5", "4", "7", "7", "4", "s", "2", "s">>,
    <<"9", "2", "2", "3", "3", "7", "2", "0", "3", "6", "8", "5", "4", "7", "7", "5", "8", "0", "8", ".", "5", "n", "s">> }

\* negative and explicitly positive magnitudes
SignedInputs ==
  { <<"-", "3", "0", "d">>,
    <<"2", "s", "-", "1", "s">>,
    <<"-", "1", "s", "-", "1", "n", "s">>,
    <<"1", "s", "1", "n", "s">>,
    <<"-", "1", ".", "5", "s">>,
    <<"1", ".", "5", "s">>,
    <<"-", "0", ".", "5", "n", "s">>,
    <<"0", ".", "5", "n", "s">>,
    <<"-", "0", ".", "0", "0", "0", "4", "u", "s">>,
    <<"0", ".", "0", "0", "0", "4", "u", "s">>,
    <<"-", "0", "s">>,
    <<"-", "0", ".", "5", "s">>,
    <<"0", ".", "5", "s">>,
    <<"-", "1", "m", "s">>,
    <<"-", "1", "n", "s">>,
    <<"-", "2", ".", "5", "m", "s">>,
    <<"2", ".", "5", "m", "s">>,
    <<"-", "1", "y", "-", "1", "M">>,
    <<"1", "y", "1", "M">>,
    <<"+", "5", "s">>,
    <<"-", "1", "s", "2", "s">>,
    <<"-", "0", ".", "5", "m", "s", "-", "0", ".", "5", "u", "s">>,
    <<"0", ".", "5", "m", "s", "0", ".", "5", "u", "s">>,
    <<"-", "1", ".", "2", "5", "h">>,
    <<"1", ".", "2", "5", "h">> }

\* inputs the grammar rejects, and their accepted neighbours
GrammarInputs ==
  { <<>>,
    <<" ">>,
    <<"x">>,
    <<"1", "d", "x">>,
    <<"x", "1", "d">>,
    <<"1", "d", "3">>,
    <<"1", "d", "!">>,
    <<"1", "m", "o", "x">>,
    <<"1", "m", "o">>,
    <<"1", "s", "m">>,
    <<"1", "d", "h">>,
    <<"1", "M">>,
    <<"1", "m">>,
    <<"3", "0", "p">>,
    <<"3", "x">>,
    <<"5", " ", "3", "d">>,
    <<"3", "d", " ", "5">>,
    <<"5", ".">>,
    <<".">>,
    <<"+">>,
    <<"1", "e", "3">>,
    <<"1", ".", "2", ".", "3">>,
    <<".", "5">>,
    <<"-", "0", ".", "5">>,
    <<".", "5", "s">>,
    <<"+", ".", "5", "s">>,
    <<"5", ".", "s">>,
    <<"1", "d", " ">>,
    <<"1", " ", "d">>,
    <<" ", "1", " ", "d", " ">>,
    <<"1", "d", " ", "3", "h">>,
    <<"1", "d", "3", "h">>,
    <<"1", "\t", "d">>,
    <<"1", "\n", "d">>,
    <<"1", "d", "\n", "3", "h">>,
    <<"3">>,
    <<" ", "3", " ">>,
    <<"-", "3">>,
    <<"1", "d", "3", "s">>,
    <<"1", " ", "s", " ", "2", " ", "m">>,
    <<"-", "-", "1", "s">>,
    <<"1", " ", ".", "5", "s">>,
    <<"9", "9", "9", "9", "9", "9", "9", "9", "9", "9", "9", "9", "9", "9", "9", "9", "9", "9", "9", "9", "s", "3", "x">>,
    <<"-", "1", "s", "3", "x">>,
    <<"1", "\r", "d">> }

\* the year and month identities of the tests
FactorInputs ==
  { <<"1", "y">>,
    <<"3", "6", "5", "d", "5", "h", "4", "9", "m", "1", "2", "s">>,
    <<"5", "2", ".", "1", "7", "7", "5", "w">>,
    <<"3", "6", "5", ".", "2", "4", "2", "5", "d">>,
    <<"3", "0", "d", "1", "0", "h", "2", "9", "m", "6", "s">>,
    <<"3", "0", ".", "4", "3", "6", "8", "7", "5", "d">>,
    <<"3", "0", ".", "0", "0", "1", "µ", "s">>,
    <<"0", ".", "0", "0", "0", "0", "3", "0", "0", "0", "1", "s">> }

\* fractions of a second at and below one nanosecond
FractionInputs ==
  { <<"0", ".", "0", "0", "0", "0", "0", "0", "0", "0", "0", "6", "s">>,
    <<"0", ".", "0", "0", "0", "0", "0", "0", "0", "0", "0", "4", "s">>,
    <<"1", ".", "9", "9", "9", "9", "9", "9", "9", "9", "9", "6", "s">>,
    <<"1", ".", "0", "0", "0", "0", "0", "0", "0", "0", "0", "5", "s">>,
    <<"0", ".", "0", "0", "0", "0", "0", "0", "0", "0", "1", "5", "s">>,
    <<"0", ".", "0", "0", "0", "6", "u", "s">>,
    <<"0", ".", "0", "0", "0", "5", "u", "s">>,
    <<"0", ".", "0", "0", "0", "0", "0", "0", "6", "m", "s">>,
    <<"-", "0", ".", "0", "0", "0", "6", "u", "s">>,
    <<"0", ".", "0", "0", "1", "5", "u", "s">>,
    <<"0", ".", "0", "0", "2", "5", "u", "s">>,
    <<"1", ".", "9", "n", "s">>,
    <<"0", ".", "9", "n", "s">>,
    <<"-", "0", ".", "9", "n", "s">>,
    <<"-", "1", ".", "9", "n", "s">>,
    <<"2", ".", "5", "n", "s">> }


\* every spelling of every unit
AllTags ==
  {tags_years[i] : i \in DOMAIN tags_years} \cup {tags_months[i] : i \in DOMAIN tags_months}
    \cup {tags_weeks[i] : i \in DOMAIN tags_weeks} \cup {tags_days[i] : i \in DOMAIN tags_days}
    \cup {tags_hours[i] : i \in DOMAIN tags_hours} \cup {tags_minutes[i] : i \in DOMAIN tags_minutes}
    \cup {tags_seconds[i] : i \in DOMAIN tags_seconds}
    \cup {tags_milliseconds[i] : i \in DOMAIN tags_milliseconds}
    \cup {tags_microseconds[i] : i \in DOMAIN tags_microseconds}
    \cup {tags_nanoseconds[i] : i \in DOMAIN tags_nanoseconds}

\* the largest whole count of the generated "n unit" inputs
MaxCount == 3

\* the longest run of spaces of the generated whitespace variants
MaxWs == 1

RECURSIVE NatDigits(_)
NatDigits(n) ==
  IF n < 10 THEN <<DigitChars[n + 1]>> ELSE Append(NatDigits(n \div 10), DigitChars[(n % 10) + 1])

ShortTags ==
  {<<"y">>, <<"M">>, <<"w">>, <<"d">>, <<"h">>, <<"m">>, <<"s">>, <<"m", "s">>, <<"u", "s">>,
   <<"n", "s">>, <<>>}

CountInputs == {NatDigits(n) \o u : n \in 0..MaxCount, u \in ShortTags}

SpellingInputs == {n \o w : n \in {<<"1">>, <<"2", ".", "5">>}, w \in AllTags}

\* words made of two one-letter spellings: "sm", "dh", ... and the spellings "ms", "µs"
NearMissInputs == {<<"1">> \o a \o b : a, b \in {w \in AllTags : Len(w) = 1}}

\* the longest generated text of sign, point, digit and exponent characters
MaxLitLen == 3

LitAlphabet == {"+", "-", ".", "5", "e"}

Literals == UNION {[1..n -> LitAlphabet] : n \in 0..MaxLitLen}

\* every such text alone and followed by the unit "s"
LiteralInputs == Literals \cup {l \o <<"s">> : l \in Literals}

WsRuns == {[i \in 1..n |-> " "] : n \in 0..MaxWs}

WsInputs ==
  {w1 \o <<"1">> \o w2 \o <<"d">> \o w3 \o rest1 :
     w1 \in WsRuns, w2 \in WsRuns, w3 \in WsRuns, rest1 \in {<<>>, <<"3", "h">>}}

Inputs ==
  OverflowInputs \cup SignedInputs \cup GrammarInputs \cup FactorInputs
    \cup CountInputs \cup SpellingInputs \cup NearMissInputs \cup WsInputs
    \cup LiteralInputs \cup FractionInputs

(***************************************************************************)
(* One call of parse(input) on one backend, as a state machine.            *)
(*   pc = "raw_seconds"    about to try the first alternative of duration  *)
(*   pc = "full_duration"  inside many1(duration_fragment)                 *)
(*   pc = "try_from"       inside the loop of TryFrom<Container>           *)
(*   pc = "done"           parse has returned `result`, or has panicked    *)
(* counts is a history variable: the f64 each fragment's number parsed to. *)
(* calls is a history variable: the calls that returned before this one.  *)
(***************************************************************************)
VARIABLES input, backend, pc, rest, durations, counts, i, duration_sum, result, calls

vars == <<input, backend, pc, rest, durations, counts, i, duration_sum, result, calls>>

NoResult == [kind |-> "None"]

Init ==
  /\ input \in Inputs
  /\ backend \in Backends
  /\ pc = "raw_seconds"
  /\ rest = input
  /\ durations = <<>>
  /\ counts = <<>>
  /\ i = 1
  /\ duration_sum = SZero
  /\ result = NoResult
  /\ calls = <<>>

Return(r) ==
  /\ result' = r
  /\ pc' = "done"

\* alt's first branch: map(raw_seconds, |v| Container::new(vec![v]))
RawSecondsAlt ==
  /\ pc = "raw_seconds"
  /\ \E r \in {raw_seconds(input)} :
         IF r.st = "Ok"
         THEN /\ durations' = <<r.val>>
              /\ counts' = <<r.val.count>>
              /\ rest' = r.rest
              /\ pc' = "try_from"
         ELSE /\ pc' = "full_duration"
              /\ UNCHANGED <<durations, counts, rest>>
  /\ UNCHANGED <<input, backend, i, duration_sum, result, calls>>

\* alt's second branch: one round of many1(duration_fragment); once it stops, many1 hands
\* over what it took (or the error of an empty first round) and all_consuming judges it
DurationFragmentStep ==
  /\ pc = "full_duration"
  /\ \E r \in {duration_fragment(rest)} :
         IF r.st = "Ok"
         THEN /\ durations' = Append(durations, r.val)
              /\ counts' = Append(counts, delimited_float(rest).val)
              /\ rest' = r.rest
              /\ UNCHANGED <<pc, result>>
         ELSE \E m \in {IF r.st = "Failure" \/ durations = <<>> THEN r
                         ELSE all_consuming(POk(rest, durations))} :
                IF m.st # "Ok"
                THEN /\ Return(ParserError)
                     /\ UNCHANGED <<durations, counts, rest>>
                ELSE /\ pc' = "try_from"
                     /\ UNCHANGED <<durations, counts, rest, result>>
  /\ UNCHANGED <<input, backend, i, duration_sum, calls>>

\* one round of `for duration in &durations.0 { duration_sum += match duration {..} }`
TryFromStep(b) ==
  /\ pc = "try_from"
  /\ backend = b
  /\ i <= Len(durations)
  /\ \E v \in {fragment_value(b, durations[i])} :
         IF v.kind # "Ok" THEN Return(v) /\ UNCHANGED <<i, duration_sum>>
         ELSE \E t \in {add_assign(b, duration_sum, v.val)} :
                IF t.kind # "Ok" THEN Return(t) /\ UNCHANGED <<i, duration_sum>>
                ELSE /\ duration_sum' = t.val
                     /\ i' = i + 1
                     /\ UNCHANGED <<pc, result>>
  /\ UNCHANGED <<input, backend, rest, durations, counts, calls>>

StdtimeTryFrom == TryFromStep("stdtime")

ChronoTryFrom == TryFromStep("chrono")

TimeTryFrom == TryFromStep("time")

\* Ok(duration_sum), handed back by parse
ParseReturn ==
  /\ pc = "try_from"
  /\ i > Len(durations)
  /\ Return(Ok(duration_sum))
  /\ UNCHANGED <<input, backend, rest, durations, counts, i, duration_sum, calls>>

Next ==
  \/ RawSecondsAlt
  \/ DurationFragmentStep
  \/ StdtimeTryFrom
  \/ ChronoTryFrom
  \/ TimeTryFrom
  \/ ParseReturn

Spec == Init /\ [][Next]_vars

Done == pc = "done"

\* the steps compute what the one-shot definition of parse computes
StepsAgreeWithParse == Done => result = parse(backend, input)

(***************************************************************************)
(* Calls of parse one after another.  A call has nothing but its argument  *)
(* and its locals: parse, duration and try_from declare no static and take *)
(* no handle, so the next call starts from fresh locals whatever the calls *)
(* before it were.                                                         *)
(***************************************************************************)
\* the calls that may have returned before the one that is running
MaxCalls == 2

\* inputs of the repeated calls: both alternatives of the grammar, a sum of two fragments, a
\* conversion error and a grammar error
CallInputs == { <<"3">>, <<"1", "d", "3", "s">>, <<"-", "1", "s">>, <<"x">> }

InitCalls == Init /\ input \in CallInputs

\* the call that returned is filed and parse is called again; sum is what the new call's
\* duration_sum starts from
StartCall(sum) ==
  /\ pc = "done"
  /\ Len(calls) < MaxCalls
  /\ calls' = Append(calls, [input |-> input, backend |-> backend, result |-> result])
  /\ input' \in CallInputs
  /\ backend' \in Backends
  /\ pc' = "raw_seconds"
  /\ rest' = input'
  /\ durations' = <<>>
  /\ counts' = <<>>
  /\ i' = 1
  /\ duration_sum' = sum
  /\ result' = NoResult

\* a next call whose sum goes on from the sum of the call before, as a static would
NextCallKeepingSum == StartCall(duration_sum)

\* let mut duration_sum = Self::new(0, 0): every call starts its own sum
NextCall == StartCall(SZero)

NextCalls ==
  \/ RawSecondsAlt
  \/ DurationFragmentStep
  \/ StdtimeTryFrom
  \/ ChronoTryFrom
  \/ TimeTryFrom
  \/ ParseReturn
  \/ NextCall

SpecCalls == InitCalls /\ [][NextCalls]_vars


(***************************************************************************)
(* The properties.  Each is a predicate on the states of Spec; those about *)
(* what parse returns read the state in which the call is over.            *)
(***************************************************************************)
\* the grammar took the input: the call got as far as the conversion
Accepted == Done /\ result # ParserError

\* the bounds of the native type of a backend, in nanoseconds
RangeMin(b) ==
  CASE b = "stdtime" -> SZero
    [] b = "chrono"  -> CHRONO_MIN
    [] b = "time"    -> TIME_MIN

RangeMax(b) ==
  CASE b = "stdtime" -> STD_MAX
    [] b = "chrono"  -> CHRONO_MAX
    [] b = "time"    -> TIME_MAX

\* the sum of the values of the fragments from position k on, each converted alone
RECURSIVE FragmentSum(_, _, _)
FragmentSum(b, ds, k) ==
  IF k > Len(ds) THEN SZero
  ELSE SAdd(fragment_value(b, ds[k]).val, FragmentSum(b, ds, k + 1))

\* C1: on stdtime, a fragment of a unit of a second or more whose count is not negative and
\* whose product with the unit's factor is infinite or at least 2^64 seconds, more than
\* std::time::Duration holds, makes parse return Err(DurationOverflow): never a panic, never Ok
C1_StdtimeOverflowIsAnError ==
  (/\ Accepted
   /\ backend = "stdtime"
   /\ Len(durations) = 1
   /\ durations[1].unit \in GeSecondUnits
   /\ counts[1].s = 0
   /\ ~F64Lt(F64Mul(secs_per_interval(durations[1].unit), counts[1]), F64FromBig(0, BPow2(64))))
  => result = DurationOverflow

\* C2: on every backend, when each fragment converts on its own and the sum of the fragments
\* is outside the native range, parse returns Err(DurationOverflow): the addition to the
\* running sum neither wraps nor aborts
C2_SumOverflowIsAnError ==
  (/\ Accepted
   /\ durations # <<>>
   /\ \A k \in DOMAIN durations : fragment_value(backend, durations[k]).kind = "Ok"
   /\ ~InRange(FragmentSum(backend, durations, 1), RangeMin(backend), RangeMax(backend)))
  => result = DurationOverflow

\* C3: on chrono, a fragment of a unit of a second or more, of either sign, ends in
\* Err(DurationOverflow) or in a constructed TimeDelta: no magnitude makes parse abort
C3_ChronoNeverAborts ==
  (/\ Accepted
   /\ backend = "chrono"
   /\ Len(durations) = 1
   /\ durations[1].unit \in GeSecondUnits)
  => result.kind \in {"Ok", "DurationOverflow"}

\* C4: on stdtime, an input with a fragment whose magnitude is below zero, in any unit and
\* however close to zero, returns an error whatever the sum of the fragments is
C4_StdtimeRejectsNegativeFragments ==
  (/\ Done
   /\ backend = "stdtime"
   /\ \E k \in DOMAIN counts : counts[k].s = 1 /\ ~F64IsZero(counts[k]))
  => result.kind \in {"DurationOverflow", "ParserError"}

\* the input without its minus signs
Unsigned(inp) == SelectSeq(inp, LAMBDA c : c # "-")

\* every fragment of the input carries a leading '-'
AllMinus ==
  /\ durations # <<>>
  /\ Len(SelectSeq(input, LAMBDA c : c = "-")) = Len(durations)
  /\ \A k \in DOMAIN counts : counts[k].s = 1

\* C5: on chrono and on time, an input whose every fragment carries a leading '-' parses to
\* the exact negation of what the same input without the signs parses to, for whole and for
\* fractional magnitudes
C5_SignedBackendsNegateExactly ==
  (/\ Accepted
   /\ backend \in {"chrono", "time"}
   /\ AllMinus
   /\ parse(backend, Unsigned(input)).kind = "Ok")
  => result = Ok(SNeg(parse(backend, Unsigned(input)).val))

\* the input without its whitespace
Squeeze(inp) == SelectSeq(inp, LAMBDA c : c \notin Multispace)

\* C6: whitespace before the number, between the number and the unit and after the last
\* unit changes nothing: "1d", "1 d" and " 1 d " all succeed with the same result
C6_WhitespaceChangesNothing ==
  (Done /\ input \in WsInputs)
  => (result.kind = "Ok" /\ result = parse(backend, Squeeze(input)))

\* the first character that is not whitespace cannot start a number
LeadingGarbage(inp) ==
  /\ multispace0(inp) # <<>>
  /\ Head(multispace0(inp)) \notin Digits \cup {"+", "-", "."}

\* C7: parse succeeds only when the fragments, or the bare number, account for the whole
\* input: the empty input, an input with characters left after the last fragment taken and
\* an input that starts with something other than whitespace and a number all end in the
\* grammar error, never in the value of the part that was parsed
C7_WholeInputOrGrammarError ==
  Done =>
    /\ input = <<>> => result = ParserError
    /\ rest # <<>> => result = ParserError
    /\ LeadingGarbage(input) => result = ParserError
    /\ result # ParserError => durations # <<>>

\* C7 (reached): a fragment was taken, characters are left over, and the call ended in the
\* grammar error
C7_LeftoverRejected ==
  /\ Done
  /\ durations # <<>>
  /\ rest # <<>>
  /\ result = ParserError

\* the maximal runs of unit-alphabet characters of an input, in order
RECURSIVE WordRuns(_)
WordRuns(inp) ==
  IF inp = <<>> THEN <<>>
  ELSE With(RunLen(inp, WordChars), LAMBDA n :
         IF n = 0 THEN WordRuns(Tail(inp))
         ELSE <<SubSeq(inp, 1, n)>> \o WordRuns(Drop(inp, n)))

\* C8: a maximal run of unit-alphabet characters that is not exactly one spelling makes the
\* input a grammar error; an accepted input has one fragment per run, so no run is split into
\* several units or matched by a prefix; and "1M" is a month while "1m" is a minute
C8_RunIsExactlyOneSpelling ==
  Done =>
    /\ (\E k \in DOMAIN WordRuns(input) : WordRuns(input)[k] \notin AllTags)
         => result = ParserError
    /\ (result # ParserError /\ WordRuns(input) # <<>>)
         => Len(durations) = Len(WordRuns(input))
    /\ input = <<"1", "M">> => (result.kind = "Ok" /\ durations[1].unit = "Month")
    /\ input = <<"1", "m">> => (result.kind = "Ok" /\ durations[1].unit = "Minute")

\* C8 (reached): "1sm", two spellings run together, ended in the grammar error
C8_RunTogetherRejected ==
  /\ Done
  /\ input = <<"1", "s", "m">>
  /\ WordRuns(input) = << <<"s", "m">> >>
  /\ result = ParserError

\* the spellings of the unit that w is a spelling of
SpellingsOf(w) ==
  CHOOSE T \in {{tags[k] : k \in DOMAIN tags} :
                  tags \in {tags_years, tags_months, tags_weeks, tags_days, tags_hours,
                            tags_minutes, tags_seconds, tags_milliseconds,
                            tags_microseconds, tags_nanoseconds}} : w \in T

\* the number an input starts with, as written
NumberPart(inp) == SubSeq(inp, 1, RunLen(inp, Digits \cup {"."}))

\* C9: for every spelling of every unit, the number followed by the spelling is accepted and
\* parses to what the same number followed by any other spelling of the unit parses to
C9_SpellingsAgree ==
  (Done /\ input \in SpellingInputs)
  => /\ result # ParserError
     /\ \A w \in SpellingsOf(Drop(input, Len(NumberPart(input)))) :
          parse(backend, NumberPart(input) \o w) = result

\* C9 (reached): "1µs" parsed to a thousand nanoseconds
C9_MicroSignParsed ==
  /\ Done
  /\ input = <<"1", "µ", "s">>
  /\ result = Ok(SNat(1000))

\* the whole count an input starts with
CountOf(inp) == DigitsToBig(SubSeq(inp, 1, RunLen(inp, Digits)), <<>>)

\* the unit spelling that follows the whole count
TagOf(inp) == Drop(inp, RunLen(inp, Digits))

\* a whole count followed by one of the short spellings, or by nothing
IsCountInput(inp) == RunLen(inp, Digits) > 0 /\ TagOf(inp) \in ShortTags

SubSecondTags == {<<"m", "s">>, <<"u", "s">>, <<"n", "s">>}

\* the factor the claim gives for a spelling: seconds for the units of a second or more,
\* nanoseconds for the smaller ones
ClaimedFactor(tag) ==
  CASE tag = <<"y">>      -> 31556952
    [] tag = <<"M">>      -> 2629746
    [] tag = <<"w">>      -> 604800
    [] tag = <<"d">>      -> 86400
    [] tag = <<"h">>      -> 3600
    [] tag = <<"m">>      -> 60
    [] tag = <<"s">>      -> 1
    [] tag = <<>>         -> 1
    [] tag = <<"m", "s">> -> 1000000
    [] tag = <<"u", "s">> -> 1000
    [] tag = <<"n", "s">> -> 1

\* count times factor, in the factor's own unit
ClaimedProduct(inp) == BMul(CountOf(inp), BFromNat(ClaimedFactor(TagOf(inp))))

\* count times factor, in nanoseconds
ClaimedNanos(inp) ==
  SB(FALSE, IF TagOf(inp) \in SubSecondTags THEN ClaimedProduct(inp)
            ELSE BMul(ClaimedProduct(inp), BNanosPerSec))

YearNanos == SB(FALSE, BMul(BFromNat(31556952), BNanosPerSec))

MonthNanos == SB(FALSE, BMul(BFromNat(2629746), BNanosPerSec))

YearInputs ==
  { <<"1", "y">>,
    <<"3", "6", "5", "d", "5", "h", "4", "9", "m", "1", "2", "s">>,
    <<"5", "2", ".", "1", "7", "7", "5", "w">> }

MonthInputs ==
  { <<"1", "M">>,
    <<"3", "0", "d", "1", "0", "h", "2", "9", "m", "6", "s">> }

\* C10, as stated: for every unit and every whole count n whose product with the unit's
\* factor is in the backend's range, parse(n ++ unit) is n times the factor
C10_CountTimesFactor ==
  (/\ Done
   /\ IsCountInput(input)
   /\ InRange(ClaimedNanos(input), RangeMin(backend), RangeMax(backend)))
  => result = Ok(ClaimedNanos(input))

\* C10, amended: for every unit and every whole count n whose product with the unit's
\* factor is in the backend's range and at most 2^53 (counted in seconds for the units of a
\* second or more, in nanoseconds for the smaller ones), parse(n ++ unit) is n times the
\* factor; and "1y", "365d5h49m12s" and "52.1775w" are one year, "1M" and "30d10h29m6s" one
\* month
C10_CountTimesFactorExact ==
  Done =>
    /\ (/\ IsCountInput(input)
        /\ InRange(ClaimedNanos(input), RangeMin(backend), RangeMax(backend))
        /\ BLe(ClaimedProduct(input), BPow2(MantBits)))
         => result = Ok(ClaimedNanos(input))
    /\ input \in YearInputs => result = Ok(YearNanos)
    /\ input \in MonthInputs => result = Ok(MonthNanos)

\* C10 (reached): "3M" parsed to three months of 2629746 seconds on the time backend
C10_ThreeMonths ==
  /\ Done
  /\ backend = "time"
  /\ input = <<"3", "M">>
  /\ result = Ok(SB(FALSE, BMul(BFromNat(3 * 2629746), BNanosPerSec)))

\* the input is a run of unit-annotated fragments and nothing else
UnitAnnotated(inp) == all_consuming(full_duration(inp)).st = "Ok"

\* the sum held after the first j fragments, each converted alone
RECURSIVE RunningTotal(_, _, _)
RunningTotal(b, ds, j) ==
  IF j = 0 THEN SZero
  ELSE SAdd(RunningTotal(b, ds, j - 1), fragment_value(b, ds[j]).val)

\* the input splits after position k into two runs of unit-annotated fragments that each
\* parse to a value on backend b
SplitsIntoParsed(b, inp, k) ==
  /\ UnitAnnotated(SubSeq(inp, 1, k))
  /\ UnitAnnotated(SubSeq(inp, k + 1, Len(inp)))
  /\ parse(b, SubSeq(inp, 1, k)).kind = "Ok"
  /\ parse(b, SubSeq(inp, k + 1, Len(inp))).kind = "Ok"

SumOfParts(b, inp, k) ==
  SAdd(parse(b, SubSeq(inp, 1, k)).val, parse(b, SubSeq(inp, k + 1, Len(inp))).val)

TrimWs(inp) ==
  IF \A k \in DOMAIN inp : inp[k] \in Multispace THEN <<>>
  ELSE SubSeq(inp,
              CHOOSE a \in DOMAIN inp :
                inp[a] \notin Multispace /\ \A k \in 1..(a - 1) : inp[k] \in Multispace,
              CHOOSE z \in DOMAIN inp :
                inp[z] \notin Multispace /\ \A k \in (z + 1)..Len(inp) : inp[k] \in Multispace)

AllDigits(t) == \A k \in DOMAIN t : t[k] \in Digits

\* digits, or digits that may be none, a point and at least one digit
IsUnsignedNumeral(t) ==
  \/ t # <<>> /\ AllDigits(t)
  \/ \E p \in DOMAIN t :
       /\ t[p] = "."
       /\ AllDigits(SubSeq(t, 1, p - 1))
       /\ p < Len(t)
       /\ AllDigits(SubSeq(t, p + 1, Len(t)))

\* the numeric literal of the grammar: an optional sign, then an unsigned numeral
IsNumeral(t) ==
  \/ IsUnsignedNumeral(t)
  \/ t # <<>> /\ t[1] \in {"+", "-"} /\ IsUnsignedNumeral(Tail(t))

\* C12: a bare numeric literal n, whitespace around it allowed, is a count of seconds:
\* parse(n) ends as parse(n ++ "s") ends on every backend, in the same value or in the same
\* failure
C12_BareNumberIsSeconds ==
  (Done /\ IsNumeral(TrimWs(input))) => result = parse(backend, input \o <<"s">>)

\* a bare number with a fraction has been parsed to a value that is not zero
C12_BareFractionParsed ==
  /\ Done
  /\ IsNumeral(TrimWs(input))
  /\ "." \in {input[k] : k \in DOMAIN input}
  /\ result.kind = "Ok"
  /\ SCmp(result.val, SZero) # 0
  /\ result = parse(backend, input \o <<"s">>)

\* the input, whitespace aside, is a numeral, whitespace, and a run of unit-annotated
\* fragments, or the same two the other way round
MixesBareNumber(inp) ==
  \E k \in 1..(Len(inp) - 1) :
    \/ /\ IsNumeral(TrimWs(SubSeq(inp, 1, k)))
       /\ inp[k] \in Multispace
       /\ UnitAnnotated(SubSeq(inp, k + 1, Len(inp)))
    \/ /\ UnitAnnotated(SubSeq(inp, 1, k))
       /\ inp[k + 1] \in Multispace
       /\ IsNumeral(TrimWs(SubSeq(inp, k + 1, Len(inp))))

\* C13: a number without a unit cannot stand next to unit-annotated fragments: "5 3d" and
\* "3d 5", and every input of either shape, end in the grammar error
C13_NoMixingWithBareNumber ==
  (Done /\ MixesBareNumber(input)) => result = ParserError

\* a bare number followed by whitespace and a fragment, as "5 3d", has been rejected
C13_MixedRejected ==
  /\ Done
  /\ MixesBareNumber(input)
  /\ result = ParserError
  /\ durations = <<>>
  /\ IsNumeral(TrimWs(SubSeq(input, 1, 1)))

\* a character a number can start or go on with
NumberChars == Digits \cup {"+", "-", "."}

\* the input is a numeral and, from position k + 1 on, a suffix without number characters
\* and without whitespace that is not a spelling of a unit
UnknownSuffixAt(inp, k) ==
  /\ IsNumeral(TrimWs(SubSeq(inp, 1, k)))
  /\ \A j \in (k + 1)..Len(inp) : inp[j] \notin NumberChars \cup Multispace
  /\ SubSeq(inp, k + 1, Len(inp)) \notin AllTags

\* C14: a number followed by a suffix that is no unit spelling ("30p", "3x") ends in the
\* grammar error ParserError: never in DurationOverflow, never in the value of the number
C14_UnknownSuffixIsGrammarError ==
  (Done /\ \E k \in 1..(Len(input) - 1) : UnknownSuffixAt(input, k)) => result = ParserError

\* "3x" or "30p", a number and a suffix outside the unit alphabet, has been rejected
C14_ForeignSuffixRejected ==
  /\ Done
  /\ \E k \in 1..(Len(input) - 1) : UnknownSuffixAt(input, k)
  /\ input[Len(input)] \notin WordChars
  /\ result = ParserError

\* the characters a text that is meant as a number is written with
LiteralChars == NumberChars \cup {"e", "E"}

IsLiteralText(t) == \A k \in DOMAIN t : t[k] \in LiteralChars

\* C15: a text is taken as a number exactly when it is an optional sign, then optionally
\* digits (none allowed) and a point, then at least one digit: "5", "+5", "-0.5", ".5" are
\* numbers; "5.", ".", "+", "1e3", "1.2.3" are not, and an input with such a text in place of
\* the number, alone or before a unit, ends in the grammar error
C15_NumeralGrammar ==
  Done =>
    /\ IsLiteralText(input) => (result # ParserError <=> IsNumeral(input))
    /\ (/\ input # <<>>
        /\ input[Len(input)] = "s"
        /\ IsLiteralText(SubSeq(input, 1, Len(input) - 1)))
         => (result # ParserError <=> IsNumeral(SubSeq(input, 1, Len(input) - 1)))
    /\ input \in {<<"5">>, <<"+", "5">>, <<"-", "0", ".", "5">>, <<".", "5">>}
         => result # ParserError
    /\ input \in {<<"5", ".">>, <<".">>, <<"+">>, <<"1", "e", "3">>,
                  <<"1", ".", "2", ".", "3">>}
         => result = ParserError

\* digits and a point with no digit after it, as "5." and "5.s", have been rejected
C15_TrailingPointRejected ==
  /\ Done
  /\ Len(input) >= 2
  /\ input[1] \in Digits
  /\ input[2] = "."
  /\ Len(input) > 2 => input[3] = "s"
  /\ ~IsNumeral(SubSeq(input, 1, 2))
  /\ result = ParserError

\* v nanoseconds is within half a nanosecond of the finite f64 x seconds, and of its sign
NearestNanos(x, v) ==
  /\ v.mag # <<>> => v.neg = (x.s = 1)
  /\ IF x.m = <<>> THEN v.mag = <<>>
     ELSE IF x.e >= 0 THEN v.mag = BShl(BMul(x.m, BNanosPerSec), x.e)
     ELSE With(SAdd(SB(FALSE, BShl(v.mag, -x.e)), SB(TRUE, BMul(x.m, BNanosPerSec))),
               LAMBDA diff : BLe(BShl(diff.mag, 1), BPow2(-x.e)))

\* the call is over for an input of one fragment of a unit of a second or more
OneGeSecondFragment ==
  /\ Accepted
  /\ Len(durations) = 1
  /\ durations[1].unit \in GeSecondUnits

\* C16: on time, a fragment of a unit of a second or more goes through the checked
\* constructor: a product the constructor rejects gives Err(DurationOverflow), a product it
\* takes gives the constructed value, the nearest nanosecond to the product and inside the
\* range of time::Duration; the fragment neither aborts the call nor is clamped
C16_TimeCheckedConstructor ==
  (OneGeSecondFragment /\ backend = "time") =>
    With(F64Mul(secs_per_interval(durations[1].unit), counts[1]), LAMBDA product :
      IF time_checked_seconds_f64(product).kind = "Ok"
      THEN /\ result = time_checked_seconds_f64(product)
           /\ NearestNanos(product, result.val)
           /\ InRange(result.val, TIME_MIN, TIME_MAX)
      ELSE result = DurationOverflow)

\* the checked constructor of time has rejected a fragment of 2^63 seconds or more
C16_TimeRejected ==
  /\ OneGeSecondFragment
  /\ backend = "time"
  /\ ~F64Lt(F64Mul(secs_per_interval(durations[1].unit), counts[1]), F64FromBig(0, BPow2(63)))
  /\ result = DurationOverflow

\* every backend parses the input to a value
AllBackendsAccept(inp) == \A b \in Backends : parse(b, inp).kind = "Ok"

\* C17: an input that all three backends accept parses to the same number of nanoseconds
\* on all three: the unit factors and the rounding are the same
C17_BackendsAgree ==
  (Done /\ AllBackendsAccept(input)) => \A b \in Backends : parse(b, input) = result

Magnitude(inp) == IF inp # <<>> /\ inp[1] = "-" THEN Tail(inp) ELSE inp

\* the input is a whole count, signed or not, of milliseconds, microseconds or nanoseconds
IsSubSecondCount(inp) ==
  /\ IsCountInput(Magnitude(inp))
  /\ TagOf(Magnitude(inp)) \in SubSecondTags

\* what the text of such an input says, in nanoseconds
WrittenNanos(inp) == SB(inp[1] = "-", ClaimedProduct(Magnitude(inp)))

\* C20: a millisecond, microsecond or nanosecond fragment whose value in nanoseconds is
\* outside the signed 64-bit range is rejected, the value 2^63 ("9223372036854775808ns")
\* included: it is never accepted as 2^63 - 1 or as another clamped value
C20_SubSecondOutsideI64Rejected ==
  (/\ Done
   /\ IsSubSecondCount(input)
   /\ ~InRange(WrittenNanos(input), I64_MIN, I64_MAX))
  => result.kind # "Ok"

C21_NanosecondOverflowKind ==
  (/\ Done
   /\ IsSubSecondCount(input)
   /\ TagOf(Magnitude(input)) = <<"n", "s">>
   /\ ~InRange(WrittenNanos(input), I64_MIN, I64_MAX))
  => result = DurationOverflow

\* the orderings of 1..n
Orderings(n) == {p \in [1..n -> 1..n] : \A a, b \in 1..n : p[a] = p[b] => a = b}

\* the fragments ds in the ordering p
Reordered(ds, p) == [k \in 1..Len(ds) |-> ds[p[k]]]

\* C22: the order of the fragments does not change the outcome: on every backend, every
\* ordering of the fragments of an accepted input converts to the same value, or every
\* ordering fails
C22_OrderIsIrrelevant ==
  (Accepted /\ Len(durations) >= 2) =>
    \A p \in Orderings(Len(durations)) :
      IF result.kind = "Ok"
      THEN try_from(backend, Reordered(durations, p), 1, SZero) = result
      ELSE try_from(backend, Reordered(durations, p), 1, SZero).kind # "Ok"

\* C23: conversion starts only once the grammar has taken the complete input: while any of
\* the input is left the loop of try_from has not run, and an input with an invalid part
\* ends in the grammar error with no fragment converted, even when a fragment before the
\* invalid part would overflow or be refused by the backend
C23_GrammarBeforeConversion ==
  /\ (pc = "try_from" \/ i > 1 \/ duration_sum # SZero) => rest = <<>>
  /\ (Done /\ rest # <<>>) => (result = ParserError /\ i = 1 /\ duration_sum = SZero)
  /\ (Done /\ result.kind \in {"Ok", "DurationOverflow", "Panic"}) => duration(input).st = "Ok"

\* a fragment that the backend would refuse was taken, the text after it was invalid, and
\* the call ended in the grammar error without converting it
C23_RefusedFragmentNotConverted ==
  /\ Done
  /\ Len(durations) = 1
  /\ fragment_value(backend, durations[1]).kind # "Ok"
  /\ rest # <<>>
  /\ result = ParserError
  /\ i = 1

\* C24: only the space and the tab are whitespace to the grammar: an input with a line feed
\* or a carriage return between its tokens, as between "1" and "d" or between "1d" and
\* "3h", ends in the grammar error
C24_OnlyHorizontalWhitespace ==
  (Done /\ \E k \in DOMAIN input : input[k] \in {"\n", "\r"}) => result = ParserError

\* C25: the bare-number reading is tried only after the fragment grammar has been tried on
\* the complete input and has failed: no step goes from the attempt at the bare number to
\* the fragment grammar, so the bare number is never the first alternative tried
C25_BareNumberNeverFirst ==
  [][pc' = "full_duration" => pc = "full_duration"]_vars

\* duration with its two alternatives in the other order: the fragment grammar first
duration_fragments_first(inp) ==
  With(full_duration(inp), LAMBDA first :
    cut(IF first.st # "Error" THEN first
        ELSE With(raw_seconds(inp), LAMBDA second :
               IF second.st = "Ok" THEN POk(second.rest, <<second.val>>) ELSE second)))

\* parse over duration_fragments_first
parse_fragments_first(b, inp) ==
  With(duration_fragments_first(inp), LAMBDA dur :
    IF dur.st # "Ok" THEN ParserError ELSE try_from(b, dur.val, 1, SZero))

\* C26: no input is taken by both the bare-number form and the fragment form, and the hard
\* failure of the fragment form, an out-of-range nanosecond count, arises only on inputs
\* the bare-number form rejects; so parse ends in the same value or error kind whichever of
\* the two alternatives is tried first
C26_AlternativesExclusive ==
  Done =>
    /\ ~(raw_seconds(input).st = "Ok" /\ full_duration(input).st = "Ok")
    /\ full_duration(input).st = "Failure" => raw_seconds(input).st # "Ok"
    /\ result = parse_fragments_first(backend, input)

\* the fragment form has failed hard on an input the bare-number form rejects, and the call
\* ended as it would with the alternatives in the other order
C26_HardFailureReached ==
  /\ Done
  /\ full_duration(input).st = "Failure"
  /\ raw_seconds(input).st = "Error"
  /\ result = ParserError
  /\ result = parse_fragments_first(backend, input)

\* v is the integer nearest to the finite f64 x, the farther from zero of two that are
\* equally near, and of the sign of x
NearestHalfAway(x, v) ==
  /\ v.mag # <<>> => v.neg = (x.s = 1)
  /\ IF x.m = <<>> THEN v.mag = <<>>
     ELSE IF x.e >= 0 THEN v.mag = BShl(x.m, x.e)
     ELSE With(SAdd(SB(FALSE, BShl(v.mag, -x.e)), SB(TRUE, x.m)), LAMBDA diff :
            /\ BLe(BShl(diff.mag, 1), BPow2(-x.e))
            /\ BShl(diff.mag, 1) = BPow2(-x.e) => ~diff.neg)

\* the call returned a value for an input of one millisecond or microsecond fragment
OneMilliOrMicroFragment ==
  /\ Done
  /\ result.kind = "Ok"
  /\ Len(durations) = 1
  /\ durations[1].unit \in {"Millisecond", "Microsecond"}

\* C27: an accepted millisecond or microsecond fragment contributes, on every backend, its
\* computed nanosecond value rounded to the nearest whole nanosecond, halves away from zero,
\* and not cut off: 0.6 ns contributes 1 ns and 0.4 ns contributes 0 ns
C27_SubSecondRoundsToNearest ==
  /\ OneMilliOrMicroFragment
       => NearestHalfAway(F64Mul(nanos_per_interval(durations[1].unit), counts[1]), result.val)
  /\ (Done /\ input = <<"0", ".", "0", "0", "0", "6", "u", "s">>) => result = Ok(SNat(1))
  /\ (Done /\ input = <<"0", ".", "0", "0", "0", "4", "u", "s">>) => result = Ok(SNat(0))

\* v is the finite f64 x with its fraction cut off
TruncationOf(x, v) ==
  /\ v.mag # <<>> => v.neg = (x.s = 1)
  /\ IF x.m = <<>> THEN v.mag = <<>>
     ELSE IF x.e >= 0 THEN v.mag = BShl(x.m, x.e)
     ELSE /\ BLe(BShl(v.mag, -x.e), x.m)
          /\ BLt(x.m, BShl(BAdd(v.mag, <<1>>), -x.e))

\* the grammar took an input of one nanosecond fragment written with a point
OneFractionalNanosecondFragment ==
  /\ Accepted
  /\ Len(durations) = 1
  /\ durations[1].unit = "Nanosecond"
  /\ \E k \in DOMAIN input : input[k] = "."

\* C28: a nanosecond fragment written with a fraction is cut toward zero when the fragment
\* is built ("1.9ns" is 1 ns, "0.9ns" and "-0.9ns" are 0 ns), and every backend adds that
\* integer as it is, stdtime after refusing a negative one
C28_NanosecondTruncated ==
  /\ OneFractionalNanosecondFragment =>
       /\ TruncationOf(counts[1], durations[1].count)
       /\ IF backend = "stdtime" /\ SCmp(durations[1].count, SZero) < 0
          THEN result = DurationOverflow
          ELSE result = Ok(durations[1].count)
  /\ (Done /\ input = <<"1", ".", "9", "n", "s">>) => result = Ok(SNat(1))
  /\ (Done /\ input \in {<<"0", ".", "9", "n", "s">>, <<"-", "0", ".", "9", "n", "s">>})
       => result = Ok(SZero)

\* a bound on the steps the call has left: the attempt at the bare number, then at most one
\* round of the repetition for every two characters left and the round that stops it, then
\* one round of the conversion for every fragment not yet added and the return
StepsLeft ==
  CASE pc = "raw_seconds"   -> 2 * Len(input) + 5
    [] pc = "full_duration" -> Len(rest) + Len(input) + 3
    [] pc = "try_from"      -> Len(durations) - i + 2
    [] pc = "done"          -> 0

\* C29: parse comes to an end on every input: every step of the call lowers a bound on the
\* steps left that is never negative, and a call that has not returned can always take a
\* step.  Every fragment the repetition takes uses up at least two characters, a digit and
\* a unit character, so the fragments taken never number more than half the characters
\* consumed and no round of the loop leaves the input as it was
C29_TerminatesWithinHalfLength ==
  /\ [](StepsLeft >= 0 /\ pc \in {"raw_seconds", "full_duration", "try_from", "done"})
  /\ [](pc = "try_from" => (backend \in Backends /\ i >= 1))
  /\ [][StepsLeft' < StepsLeft]_vars
  /\ [](pc = "full_duration" => 2 * Len(durations) <= Len(input) - Len(rest))
  /\ [][(pc = "full_duration" /\ durations' # durations) => Len(rest') + 2 <= Len(rest)]_vars

\* the loop has run length/2 times: every fragment of the input was two characters
C29_HalfLengthReached ==
  /\ Done
  /\ raw_seconds(input).st # "Ok"
  /\ Len(durations) >= 2
  /\ 2 * Len(durations) = Len(input)
  /\ rest = <<>>

\* the units with their spellings, in the order timespan_period tries them
UnitSpellings ==
  << <<"Year", tags_years>>, <<"Month", tags_months>>, <<"Week", tags_weeks>>,
     <<"Day", tags_days>>, <<"Hour", tags_hours>>, <<"Minute", tags_minutes>>,
     <<"Second", tags_seconds>>, <<"Millisecond", tags_milliseconds>>,
     <<"Microsecond", tags_microseconds>>, <<"Nanosecond", tags_nanoseconds>> >>

\* the units under which the word w is listed
UnitsListing(w) ==
  {UnitSpellings[u][1] : u \in {v \in DOMAIN UnitSpellings :
                                  \E k \in DOMAIN UnitSpellings[v][2] : UnitSpellings[v][2][k] = w}}

\* C30: no spelling is listed under two units and every spelling is written in the
\* characters timespan_word takes; so every spelling is reachable, and the unit returned for
\* a word is the unit that lists it, whatever the order of the units and of the spellings
C30_SpellingsUnambiguous ==
  /\ Done =>
       \A w \in AllTags :
         /\ Cardinality(UnitsListing(w)) = 1
         /\ \A k \in DOMAIN w : w[k] \in WordChars
  /\ (Done /\ input \in SpellingInputs) => result # ParserError
  /\ (Accepted /\ WordRuns(input) # <<>>) =>
       \A k \in DOMAIN durations : UnitsListing(WordRuns(input)[k]) = {durations[k].unit}

\* the word "m", which starts spellings of four units, has been read as the minute
C30_MinuteResolved ==
  /\ Done
  /\ result.kind = "Ok"
  /\ WordRuns(input) = << <<"m">> >>
  /\ UnitsListing(<<"m">>) = {"Minute"}
  /\ durations[1].unit = "Minute"
====
